---- MODULE Spec2Model ----
(***************************************************************************)
(* AudioInsight server: the in-memory entity store (server/storage.ts),    *)
(* the HTTP handlers and the recording pipeline (server/routes.ts).        *)
(*                                                                         *)
(* One step of the model is what one handler or the pipeline executes      *)
(* between two suspension points (awaits): the store call made in a        *)
(* continuation executes in that continuation, because no MemStorage       *)
(* method awaits anything before it reads or writes its maps.              *)
(*                                                                         *)
(* A recording row keeps id, duration, processed, transcribed, createdAt.  *)
(* title is never read by the server; filename is unique per upload and    *)
(* is identified with the recording id (files is the set of ids whose      *)
(* audio file is on disk).                                                 *)
(***************************************************************************)
EXTENDS Integers, Sequences, FiniteSets, TLC

VARIABLES
    recordings,           \* MemStorage.recordings     : id -> Recording
    transcripts,          \* MemStorage.transcripts    : id -> Transcript
    summaries,            \* MemStorage.summaries      : id -> Summary
    chatMessages,         \* MemStorage.chatMessages   : id -> ChatMessage
    recordingIdCounter,
    transcriptIdCounter,
    summaryIdCounter,
    chatMessageIdCounter,
    clock,                \* the last value new Date() returned
    files,                \* recording ids whose uploaded file exists in uploads/
    pipe,                 \* id -> the processRecording run started for it
    gen,                  \* generateSummary calls of the fan-out awaiting the model
    reqs,                 \* DELETE / GET summary / POST chat handlers, by arrival
    genCalls,             \* number of openai.chat.completions.create calls issued
    failed                \* the generateSummary calls of the fan-out that threw

storeVars == <<recordings, transcripts, summaries, chatMessages,
               recordingIdCounter, transcriptIdCounter, summaryIdCounter,
               chatMessageIdCounter>>

vars == <<recordings, transcripts, summaries, chatMessages,
          recordingIdCounter, transcriptIdCounter, summaryIdCounter,
          chatMessageIdCounter, clock, files, pipe, gen, reqs, genCalls, failed>>

----------------------------------------------------------------------------
(* Bounds of the model. *)

\* POST /api/recordings requests accepted in one behaviour
MaxRecordings == 1

\* DELETE requests accepted in one behaviour
MaxRequests == 1

\* DELETE requests accepted in one behaviour of SpecDelete
MaxDeletes == 2

\* GET summary requests accepted in one behaviour of SpecSolo
MaxGets == 2

\* POST chat requests accepted in one behaviour of SpecChat
MaxChats == 1

\* GET status requests accepted in one behaviour of SpecStatus
MaxPolls == 2

\* uploads accepted in one behaviour of SpecList; the caller of the store
\* deletes among the first MaxRecordings of them
MaxUploads == 2

\* rows of one kind created in one behaviour of SpecIds and SpecUpdate
MaxRows == 2

----------------------------------------------------------------------------
(* Maps (JS Map): iteration order is insertion order, which is id order     *)
(* because every key is the counter's value at insertion.                  *)

EmptyMap == <<>>

MapSet(m, k, v) == [x \in (DOMAIN m) \cup {k} |-> IF x = k THEN v ELSE m[x]]

MapDelete(m, k) == [x \in (DOMAIN m) \ {k} |-> m[x]]

\* the keys of m in iteration order
RECURSIVE KeysInOrder(_)
KeysInOrder(S) ==
    IF S = {} THEN <<>>
    ELSE LET k == CHOOSE x \in S : \A y \in S : x <= y
         IN  <<k>> \o KeysInOrder(S \ {k})

Values(m) == LET ks == KeysInOrder(DOMAIN m)
             IN  [i \in 1..Len(ks) |-> m[ks[i]]]

\* a sort that leaves the array as it is
Unsorted(s) == s

\* Array.prototype.sort with comparator (a, b) => a.timestamp - b.timestamp
\* (storage.ts 156; line 197 compares the same field as dates). The sort is
\* stable: elements with equal keys keep their order in s.
SortByTimestamp(s) ==
    LET n == Len(s)
        rank(i) == 1 + Cardinality({j \in 1..n :
                          \/ s[j].timestamp < s[i].timestamp
                          \/ s[j].timestamp = s[i].timestamp /\ j < i})
    IN  [p \in 1..n |-> s[CHOOSE i \in 1..n : rank(i) = p]]

\* a sort that puts the oldest recording first
SortOldestFirst(s) ==
    LET n == Len(s)
        rank(i) == 1 + Cardinality({j \in 1..n :
                          \/ s[j].createdAt < s[i].createdAt
                          \/ s[j].createdAt = s[i].createdAt /\ j < i})
    IN  [p \in 1..n |-> s[CHOOSE i \in 1..n : rank(i) = p]]

\* Array.prototype.sort with comparator (a, b) => b.createdAt - a.createdAt
\* as times (storage.ts 90); stable
SortByCreatedAt(s) ==
    LET n == Len(s)
        rank(i) == 1 + Cardinality({j \in 1..n :
                          \/ s[j].createdAt > s[i].createdAt
                          \/ s[j].createdAt = s[i].createdAt /\ j < i})
    IN  [p \in 1..n |-> s[CHOOSE i \in 1..n : rank(i) = p]]

\* the rows of map m that recording id does not own
DeleteOwned(m, id) ==
    [k \in {x \in DOMAIN m : m[x].recordingId # id} |-> m[k]]

----------------------------------------------------------------------------
(* MemStorage *)

\* A value that may be undefined is a sequence of length 0 or 1.
Undefined == <<>>
Defined(v) == <<v>>

getRecording(id) ==
    IF id \in DOMAIN recordings THEN Defined(recordings[id]) ELSE Undefined

getAllRecordings == SortByCreatedAt(Values(recordings))

\* a row that starts processed
NewRecordingProcessed(id, duration, now) ==
    [id |-> id, duration |-> duration, processed |-> TRUE,
     transcribed |-> FALSE, createdAt |-> now]

\* the row createRecording builds (processed and transcribed start false)
NewRecording(id, duration, now) ==
    [id |-> id, duration |-> duration, processed |-> FALSE,
     transcribed |-> FALSE, createdAt |-> now]

\* { ...recording, ...updateData }: every key of updateData overwrites
Merge(recording, updateData) ==
    [k \in DOMAIN recording |->
        IF k \in DOMAIN updateData THEN updateData[k] ELSE recording[k]]

\* updateRecording throws when the id is absent
updateRecordingThrows(id) == id \notin DOMAIN recordings

\* an update that stores updateData under an absent id
updateRecordingUpsert(id, updateData) ==
    IF updateRecordingThrows(id) THEN MapSet(recordings, id, updateData)
    ELSE MapSet(recordings, id, Merge(recordings[id], updateData))

updateRecording(id, updateData) ==
    IF updateRecordingThrows(id) THEN recordings
    ELSE MapSet(recordings, id, Merge(recordings[id], updateData))

\* the four maps after deleteRecording(id)
deleteRecordingRecordings(id) == MapDelete(recordings, id)
deleteRecordingTranscripts(id) == DeleteOwned(transcripts, id)
deleteRecordingSummaries(id) == DeleteOwned(summaries, id)
deleteRecordingChatMessages(id) == DeleteOwned(chatMessages, id)

getTranscriptByRecordingId(recordingId) ==
    LET owned(t) == t.recordingId = recordingId
    IN  SortByTimestamp(SelectSeq(Values(transcripts), owned))

\* an insert that takes the number of stored rows, plus one, as the id
createTranscriptBySize(insertTranscript) ==
    LET id == Cardinality(DOMAIN transcripts) + 1
    IN  MapSet(transcripts, id,
               [id |-> id,
                recordingId |-> insertTranscript.recordingId,
                speaker |-> insertTranscript.speaker,
                timestamp |-> insertTranscript.timestamp,
                text |-> insertTranscript.text])

createTranscript(insertTranscript) ==
    MapSet(transcripts, transcriptIdCounter,
           [id |-> transcriptIdCounter,
            recordingId |-> insertTranscript.recordingId,
            speaker |-> insertTranscript.speaker,
            timestamp |-> insertTranscript.timestamp,
            text |-> insertTranscript.text])

\* Array.prototype.find: the first match in iteration order, or undefined
\* a lookup that never finds the stored row
getSummaryByTypeMiss(recordingId, type) == Undefined

getSummaryByType(recordingId, type) ==
    LET match(s) == s.recordingId = recordingId /\ s.type = type
        found    == SelectSeq(Values(summaries), match)
    IN  IF found = <<>> THEN Undefined ELSE Defined(Head(found))

createSummary(insertSummary) ==
    MapSet(summaries, summaryIdCounter,
           [id |-> summaryIdCounter,
            recordingId |-> insertSummary.recordingId,
            type |-> insertSummary.type,
            content |-> insertSummary.content])

getChatMessages(recordingId) ==
    LET owned(m) == m.recordingId = recordingId
    IN  SortByTimestamp(SelectSeq(Values(chatMessages), owned))

createChatMessage(insertMessage, now) ==
    MapSet(chatMessages, chatMessageIdCounter,
           [id |-> chatMessageIdCounter,
            recordingId |-> insertMessage.recordingId,
            role |-> insertMessage.role,
            content |-> insertMessage.content,
            timestamp |-> now])

(* The methods as steps of a caller that awaits nothing else. *)

CreateRecording(duration, tick) ==
    /\ recordings' = MapSet(recordings, recordingIdCounter,
                            NewRecording(recordingIdCounter, duration, clock + tick))
    /\ recordingIdCounter' = recordingIdCounter + 1
    /\ clock' = clock + tick
    /\ UNCHANGED <<transcripts, summaries, chatMessages, transcriptIdCounter,
                   summaryIdCounter, chatMessageIdCounter,
                   files, pipe, gen, reqs, genCalls, failed>>

\* the call is kept in reqs: pc tells whether the promise resolved ("done")
\* or rejected, body is the recording it resolved to
UpdateRecording(id, updateData) ==
    /\ recordings' = updateRecording(id, updateData)
    /\ reqs' = <<[kind |-> "updateRecording", id |-> id, val |-> <<updateData>>,
                  pc |-> IF updateRecordingThrows(id) THEN "rejected" ELSE "done",
                  body |-> IF updateRecordingThrows(id) THEN Undefined
                           ELSE Defined(Merge(recordings[id], updateData))]>>
    /\ UNCHANGED <<transcripts, summaries, chatMessages, recordingIdCounter,
                   transcriptIdCounter, summaryIdCounter, chatMessageIdCounter,
                   clock, files, pipe, gen, genCalls, failed>>

DeleteRecording(id) ==
    /\ recordings' = deleteRecordingRecordings(id)
    /\ transcripts' = deleteRecordingTranscripts(id)
    /\ summaries' = deleteRecordingSummaries(id)
    /\ chatMessages' = deleteRecordingChatMessages(id)
    /\ UNCHANGED <<recordingIdCounter, transcriptIdCounter, summaryIdCounter,
                   chatMessageIdCounter, clock, files, pipe, gen, reqs,
                   genCalls, failed>>

CreateTranscript(insertTranscript) ==
    /\ transcripts' = createTranscript(insertTranscript)
    /\ transcriptIdCounter' = transcriptIdCounter + 1
    /\ UNCHANGED <<recordings, summaries, chatMessages, recordingIdCounter,
                   summaryIdCounter, chatMessageIdCounter,
                   clock, files, pipe, gen, reqs, genCalls, failed>>

CreateSummary(insertSummary) ==
    /\ summaries' = createSummary(insertSummary)
    /\ summaryIdCounter' = summaryIdCounter + 1
    /\ UNCHANGED <<recordings, transcripts, chatMessages, recordingIdCounter,
                   transcriptIdCounter, chatMessageIdCounter,
                   clock, files, pipe, gen, reqs, genCalls, failed>>

CreateChatMessage(insertMessage, tick) ==
    /\ chatMessages' = createChatMessage(insertMessage, clock + tick)
    /\ chatMessageIdCounter' = chatMessageIdCounter + 1
    /\ clock' = clock + tick
    /\ UNCHANGED <<recordings, transcripts, summaries, recordingIdCounter,
                   transcriptIdCounter, summaryIdCounter,
                   files, pipe, gen, reqs, genCalls, failed>>

----------------------------------------------------------------------------
(* Numbers. Offsets and durations the transcription service returns are     *)
(* fractional seconds; the model counts them in tenths of a second.        *)

\* Math.round of x tenths of a second, in seconds (x >= 0)
MathRound(x) == (x + 5) \div 10

\* Math.floor of x tenths of a second, in seconds (x >= 0)
MathFloor(x) == x \div 10

\* n.toString().padStart(2, '0') for 0 <= n < 100: the two digits
PadStart2(n) == <<n \div 10, n % 10>>

\* the number a two-digit string reads as
ParseDigits(d) == 10 * d[1] + d[2]

\* one line `${speaker} (${m}:${ss}): ${text}` of a transcript text; the
\* text is the sequence of its lines, which join('\n\n') separates
Line(speaker, m, ss, text) ==
    [speaker |-> speaker, m |-> m, ss |-> ss, text |-> text]

\* the seconds a line's label m:ss stands for
LabelSeconds(line) == line.m * 60 + ParseDigits(line.ss)

----------------------------------------------------------------------------
(* processRecording (routes.ts 304-405)                                     *)
(*                                                                         *)
(* pipe[id].pc names the promise the run is suspended on:                  *)
(*   "new"         createRecording, awaited by the POST handler            *)
(*   "readFile"    fs.readFile                                             *)
(*   "transcribe"  openai.audio.transcriptions.create                      *)
(*   "processed"   updateRecording(.., processed: true)                    *)
(*   "segment"     createTranscript of segment number i                    *)
(*   "fallback"    createTranscript of the whole-text fallback             *)
(*   "transcribed" updateRecording(.., transcribed: true)                  *)
(*   "catch"       updateRecording of the catch block                      *)
(*   "done"        the run's promise is resolved                           *)
(*   "rejected"    the run's promise is rejected (the catch block threw)   *)
(* rejected tells whether the awaited promise is rejected; threw names the *)
(* first await of the try block that threw ("" when none did); response is *)
(* what the POST handler that started the run answered (status 0: nothing  *)
(* yet). A POST without a file is answered 400 and reaches no store call.  *)
(* started counts the calls of processRecording for the recording,         *)
(* transcribeCalls the calls of openai.audio.transcriptions.create of its  *)
(* run, and transcriptText is the run's local variable of that name, a     *)
(* sequence of lines (the empty sequence until line 362 or 381 assigns it).*)

SummaryTypes == {"general", "mental-models", "1-on-1", "sales", "timeline"}

NoTranscription ==
    [hasSegments |-> FALSE, segments |-> <<>>, text |-> "", duration |-> 0]

\* the update data of the three updateRecording calls: the spread of the
\* recording object processRecording was called with, then the new fields
ProcessedUpdate(recording, transcription) ==
    IF recording.duration = 0
    THEN Merge(recording, [duration |-> MathRound(transcription.duration),
                           processed |-> TRUE])
    ELSE Merge(recording, [processed |-> TRUE])

TranscribedUpdate(recording) == Merge(recording, [transcribed |-> TRUE])

\* a catch block that marks the recording processed only
ErrorUpdateProcessedOnly(recording) == Merge(recording, [processed |-> TRUE])

\* a catch block that marks the recording transcribed only
ErrorUpdateTranscribedOnly(recording) == Merge(recording, [transcribed |-> TRUE])

ErrorUpdate(recording) ==
    Merge(recording, [processed |-> TRUE, transcribed |-> TRUE])

\* the row of one returned segment
SegmentRow(id, segment) ==
    [recordingId |-> id, speaker |-> "Speaker",
     timestamp |-> MathRound(segment.start), text |-> segment.text]

\* the row of the fallback: transcription.text || "Unable to transcribe ..."
FallbackText(transcription) ==
    IF transcription.text = "" THEN "Unable to transcribe audio content"
    ELSE transcription.text

\* a fallback row stamped with the rounded duration
FallbackRowAtEnd(id, transcription) ==
    [recordingId |-> id, speaker |-> "Speaker",
     timestamp |-> MathRound(transcription.duration),
     text |-> FallbackText(transcription)]

FallbackRow(id, transcription) ==
    [recordingId |-> id, speaker |-> "Speaker", timestamp |-> 0,
     text |-> FallbackText(transcription)]

SetPipe(id, fields) == [pipe EXCEPT ![id] = Merge(pipe[id], fields)]

Running(id) == id \in DOMAIN pipe

\* the catch block: await storage.updateRecording(id, {...recording, both true})
EnterCatch(id, cause) ==
    /\ recordings' = updateRecording(id, ErrorUpdate(pipe[id].recording))
    /\ pipe' = SetPipe(id, [pc |-> "catch",
                            rejected |-> updateRecordingThrows(id),
                            threw |-> cause])
    /\ UNCHANGED <<transcripts, summaries, chatMessages, recordingIdCounter,
                   transcriptIdCounter, summaryIdCounter, chatMessageIdCounter,
                   clock, files, gen, reqs, genCalls, failed>>

\* a create that takes the number of stored recordings, plus one, as the id
PostCreateBySize(duration, tick) ==
    /\ LET id  == Cardinality(DOMAIN recordings) + 1
           now == clock + tick
           recording == NewRecording(id, duration, now)
       IN  /\ recordingIdCounter' = recordingIdCounter + 1
           /\ clock' = now
           /\ recordings' = MapSet(recordings, id, recording)
           /\ files' = files \cup {id}
           /\ pipe' = MapSet(pipe, id,
                  [pc |-> "new", recording |-> recording,
                   transcription |-> NoTranscription, i |-> 0,
                   rejected |-> FALSE, threw |-> "", dispatched |-> FALSE,
                   response |-> [status |-> 0, body |-> Undefined],
                   started |-> 0, transcribeCalls |-> 0,
                   transcriptText |-> <<>>])
    /\ UNCHANGED <<transcripts, summaries, chatMessages, transcriptIdCounter,
                   summaryIdCounter, chatMessageIdCounter, gen, reqs, genCalls, failed>>

\* POST /api/recordings and /api/recordings/upload up to the first await:
\* storage.createRecording({title, filename, duration})
PostCreate(duration, tick) ==
    /\ LET id  == recordingIdCounter
           now == clock + tick
           recording == NewRecording(id, duration, now)
       IN  /\ recordingIdCounter' = id + 1
           /\ clock' = now
           /\ recordings' = MapSet(recordings, id, recording)
           /\ files' = files \cup {id}
           /\ pipe' = MapSet(pipe, id,
                  [pc |-> "new", recording |-> recording,
                   transcription |-> NoTranscription, i |-> 0,
                   rejected |-> FALSE, threw |-> "", dispatched |-> FALSE,
                   response |-> [status |-> 0, body |-> Undefined],
                   started |-> 0, transcribeCalls |-> 0,
                   transcriptText |-> <<>>])
    /\ UNCHANGED <<transcripts, summaries, chatMessages, transcriptIdCounter,
                   summaryIdCounter, chatMessageIdCounter, gen, reqs, genCalls, failed>>

\* the POST handler resumes: processRecording(recording) runs up to
\* await fs.readFile(filePath); the handler answers 201
PostDispatch(id) ==
    /\ Running(id) /\ pipe[id].pc = "new"
    /\ pipe' = SetPipe(id, [pc |-> "readFile",
                            started |-> pipe[id].started + 1,
                            response |-> [status |-> 201,
                                          body |-> Defined(pipe[id].recording)]])
    /\ UNCHANGED <<storeVars, clock, files, gen, reqs, genCalls, failed>>

\* fs.readFile returns: the transcription request is sent
ReadFileReturn(id) ==
    /\ Running(id) /\ pipe[id].pc = "readFile"
    /\ id \in files
    /\ pipe' = SetPipe(id, [pc |-> "transcribe",
                            transcribeCalls |-> pipe[id].transcribeCalls + 1])
    /\ UNCHANGED <<storeVars, clock, files, gen, reqs, genCalls, failed>>

\* fs.readFile throws (the file is gone, or any I/O error)
ReadFileThrow(id) ==
    /\ Running(id) /\ pipe[id].pc = "readFile"
    /\ EnterCatch(id, "readFile")

\* the transcription call returns: lines 327-339 run up to their await
TranscribeReturn(id, transcription) ==
    /\ Running(id) /\ pipe[id].pc = "transcribe"
    /\ recordings' = updateRecording(id,
                        ProcessedUpdate(pipe[id].recording, transcription))
    /\ pipe' = SetPipe(id, [pc |-> "processed",
                            transcription |-> transcription,
                            rejected |-> updateRecordingThrows(id)])
    /\ UNCHANGED <<transcripts, summaries, chatMessages, recordingIdCounter,
                   transcriptIdCounter, summaryIdCounter, chatMessageIdCounter,
                   clock, files, gen, reqs, genCalls, failed>>

\* a failed transcription call that is sent once more before giving up
TranscribeThrowRetry(id) ==
    /\ Running(id) /\ pipe[id].pc = "transcribe"
    /\ IF pipe[id].transcribeCalls < 2
       THEN /\ pipe' = SetPipe(id, [transcribeCalls |->
                                        pipe[id].transcribeCalls + 1])
            /\ UNCHANGED <<storeVars, clock, files, gen, reqs, genCalls, failed>>
       ELSE EnterCatch(id, "transcribe")

\* the transcription call throws
TranscribeThrow(id) ==
    /\ Running(id) /\ pipe[id].pc = "transcribe"
    /\ EnterCatch(id, "transcribe")

\* an insert that also marks the recording transcribed
InsertTranscriptAndMark(id, row, pc, i) ==
    /\ transcripts' = createTranscript(row)
    /\ transcriptIdCounter' = transcriptIdCounter + 1
    /\ recordings' = updateRecording(id, [transcribed |-> TRUE])
    /\ pipe' = SetPipe(id, [pc |-> pc, i |-> i])
    /\ UNCHANGED <<summaries, chatMessages, recordingIdCounter,
                   summaryIdCounter, chatMessageIdCounter,
                   clock, files, gen, reqs, genCalls, failed>>

\* storage.createTranscript(row) up to its await
InsertTranscript(id, row, pc, i) ==
    /\ transcripts' = createTranscript(row)
    /\ transcriptIdCounter' = transcriptIdCounter + 1
    /\ pipe' = SetPipe(id, [pc |-> pc, i |-> i])
    /\ UNCHANGED <<recordings, summaries, chatMessages, recordingIdCounter,
                   summaryIdCounter, chatMessageIdCounter,
                   clock, files, gen, reqs, genCalls, failed>>

\* storage.updateRecording(id, {...recording, transcribed: true}) up to its await
MarkTranscribed(id) ==
    /\ recordings' = updateRecording(id, TranscribedUpdate(pipe[id].recording))
    /\ pipe' = SetPipe(id, [pc |-> "transcribed",
                            rejected |-> updateRecordingThrows(id)])
    /\ UNCHANGED <<transcripts, summaries, chatMessages, recordingIdCounter,
                   transcriptIdCounter, summaryIdCounter, chatMessageIdCounter,
                   clock, files, gen, reqs, genCalls, failed>>

\* the await of the processed update resumes (lines 341-372)
ResumeProcessed(id) ==
    /\ Running(id) /\ pipe[id].pc = "processed"
    /\ LET t == pipe[id].transcription
       IN  IF pipe[id].rejected THEN EnterCatch(id, "processed")
           ELSE IF ~t.hasSegments
                THEN InsertTranscript(id, FallbackRow(id, t), "fallback", 0)
           ELSE IF Len(t.segments) > 0
                THEN InsertTranscript(id, SegmentRow(id, t.segments[1]),
                                      "segment", 1)
           ELSE MarkTranscribed(id)

\* the await of createTranscript resumes inside the for loop (lines 346-359)
ResumeSegment(id) ==
    /\ Running(id) /\ pipe[id].pc = "segment"
    /\ LET t == pipe[id].transcription
           i == pipe[id].i
       IN  IF i < Len(t.segments)
           THEN InsertTranscript(id, SegmentRow(id, t.segments[i + 1]),
                                 "segment", i + 1)
           ELSE MarkTranscribed(id)

\* the await of the fallback's createTranscript resumes (lines 374-378)
ResumeFallback(id) ==
    /\ Running(id) /\ pipe[id].pc = "fallback"
    /\ MarkTranscribed(id)

\* a fan-out that leaves the timeline summary out
FanOutFour(id) ==
    {[recordingId |-> id, type |-> type] : type \in SummaryTypes \ {"timeline"}}

\* the generateSummary calls Promise.all is given (lines 385-391)
FanOut(id) == {[recordingId |-> id, type |-> type] : type \in SummaryTypes}

\* line 363: Math.floor(segment.start / 60) and Math.round(segment.start) % 60
SegmentLine(segment) ==
    Line("Speaker", segment.start \div 600,
         PadStart2(MathRound(segment.start) % 60), segment.text)

\* the transcriptText of lines 362-364 and 381
PipelineText(transcription) ==
    IF transcription.hasSegments
    THEN [i \in 1..Len(transcription.segments) |->
                SegmentLine(transcription.segments[i])]
    ELSE <<Line("Speaker", 0, PadStart2(0), FallbackText(transcription))>>

\* a resumption that stores processed: true again before the fan-out
ResumeTranscribedAndFix(id) ==
    /\ Running(id) /\ pipe[id].pc = "transcribed"
    /\ IF pipe[id].rejected THEN EnterCatch(id, "transcribed")
       ELSE /\ recordings' = updateRecording(id, [processed |-> TRUE])
            /\ gen' = gen \cup FanOut(id)
            /\ genCalls' = genCalls + Cardinality(FanOut(id))
            /\ pipe' = SetPipe(id, [pc |-> "done", dispatched |-> TRUE,
                                    transcriptText |->
                                        PipelineText(pipe[id].transcription)])
            /\ UNCHANGED <<transcripts, summaries, chatMessages,
                           recordingIdCounter, transcriptIdCounter,
                           summaryIdCounter, chatMessageIdCounter,
                           clock, files, reqs, failed>>

\* the await of the transcribed update resumes: lines 361-395, the five
\* generateSummary calls run up to their await of the completion request
ResumeTranscribed(id) ==
    /\ Running(id) /\ pipe[id].pc = "transcribed"
    /\ IF pipe[id].rejected THEN EnterCatch(id, "transcribed")
       ELSE /\ gen' = gen \cup FanOut(id)
            /\ genCalls' = genCalls + Cardinality(FanOut(id))
            /\ pipe' = SetPipe(id, [pc |-> "done", dispatched |-> TRUE,
                                    transcriptText |->
                                        PipelineText(pipe[id].transcription)])
            /\ UNCHANGED <<storeVars, clock, files, reqs, failed>>

\* the await of the catch block resumes: the run's promise settles
ResumeCatch(id) ==
    /\ Running(id) /\ pipe[id].pc = "catch"
    /\ pipe' = SetPipe(id, [pc |-> IF pipe[id].rejected THEN "rejected"
                                   ELSE "done"])
    /\ UNCHANGED <<storeVars, clock, files, gen, reqs, genCalls, failed>>

----------------------------------------------------------------------------
(* generateSummary (routes.ts 408-474), as called by the fan-out *)

\* the completion returns content: storage.createSummary stores the row
GenerateReturn(task, content) ==
    /\ task \in gen
    /\ gen' = gen \ {task}
    /\ summaries' = createSummary([recordingId |-> task.recordingId,
                                   type |-> task.type, content |-> content])
    /\ summaryIdCounter' = summaryIdCounter + 1
    /\ UNCHANGED <<recordings, transcripts, chatMessages, recordingIdCounter,
                   transcriptIdCounter, chatMessageIdCounter,
                   clock, files, pipe, reqs, genCalls, failed>>

\* a rejection that cancels the other calls of the same recording
CancelSiblings(task) == {t \in gen : t.recordingId # task.recordingId}

\* the promises of the other calls Promise.all was given, after one rejects:
\* Promise.all rejects, the others stay pending
AfterRejection(task) == gen \ {task}

\* the completion throws: Promise.all rejects and the error is logged
GenerateThrow(task) ==
    /\ task \in gen
    /\ gen' = AfterRejection(task)
    /\ failed' = failed \cup {task}
    /\ UNCHANGED <<storeVars, clock, files, pipe, reqs, genCalls>>

----------------------------------------------------------------------------
(* HTTP handlers that await more than once (routes.ts 138-160, 206-297).    *)
(*                                                                         *)
(* reqs[q].pc names the promise handler q is suspended on; val is the      *)
(* value that promise resolves to, read when the store call was made.      *)
(* A finished handler has pc "done", its HTTP status and its response      *)
(* body; made counts the rows it created and called the completion         *)
(* requests it sent.                                                       *)

NewRequest(kind, id, type, message, pc, val) ==
    [kind |-> kind, id |-> id, type |-> type, message |-> message,
     pc |-> pc, val |-> val,
     status |-> 0, body |-> "", made |-> 0, called |-> 0]

Accept(request) == reqs' = Append(reqs, request)

SetReq(q, fields) == [reqs EXCEPT ![q] = Merge(reqs[q], fields)]

\* res.status(status).json(body): the handler ends
Respond(q, status, body) ==
    SetReq(q, [pc |-> "done", val |-> <<>>, status |-> status, body |-> body])

At(q, kind, pc) ==
    /\ q \in 1..Len(reqs)
    /\ reqs[q].kind = kind
    /\ reqs[q].pc = pc

(* DELETE /api/recordings/:id *)

\* the request arrives: storage.getRecording(id) is called
DeleteArrive(id) ==
    /\ Accept(NewRequest("delete", id, "", "", "recording", getRecording(id)))
    /\ UNCHANGED <<storeVars, clock, files, pipe, gen, genCalls, failed>>

\* lines 154-156: storage.deleteRecording(id), then the handler answers 200
CallDeleteRecording(q) ==
    /\ recordings' = deleteRecordingRecordings(reqs[q].id)
    /\ transcripts' = deleteRecordingTranscripts(reqs[q].id)
    /\ summaries' = deleteRecordingSummaries(reqs[q].id)
    /\ chatMessages' = deleteRecordingChatMessages(reqs[q].id)
    /\ reqs' = Respond(q, 200, "Recording deleted successfully")
    /\ UNCHANGED <<recordingIdCounter, transcriptIdCounter, summaryIdCounter,
                   chatMessageIdCounter, clock, files, pipe, gen, genCalls, failed>>

\* lines 143-154: 404, or existsSync(filePath) and then unlink or delete
DeleteCheck(q) ==
    /\ At(q, "delete", "recording")
    /\ IF reqs[q].val = Undefined
       THEN /\ reqs' = Respond(q, 404, "Recording not found")
            /\ UNCHANGED <<storeVars, clock, files, pipe, gen, genCalls, failed>>
       ELSE IF reqs[q].id \in files
       THEN /\ reqs' = SetReq(q, [pc |-> "unlink", val |-> <<>>])
            /\ UNCHANGED <<storeVars, clock, files, pipe, gen, genCalls, failed>>
       ELSE CallDeleteRecording(q)

\* the file system removes the file; the callback of fs.unlink is pending
UnlinkDone(q) ==
    /\ At(q, "delete", "unlink")
    /\ reqs[q].id \in files
    /\ files' = files \ {reqs[q].id}
    /\ reqs' = SetReq(q, [pc |-> "unlinked"])
    /\ UNCHANGED <<storeVars, clock, pipe, gen, genCalls, failed>>

\* fs.unlink fails (the file is gone, or any I/O error): the handler's catch
\* answers 500
UnlinkThrow(q) ==
    /\ At(q, "delete", "unlink")
    /\ reqs' = Respond(q, 500, "Failed to delete recording")
    /\ UNCHANGED <<storeVars, clock, files, pipe, gen, genCalls, failed>>

\* await fs.unlink resumes: line 154
DeleteAfterUnlink(q) ==
    /\ At(q, "delete", "unlinked")
    /\ CallDeleteRecording(q)

(* GET /api/recordings/:id/summary/:type *)

\* lines 226 and 266: the transcript text built from the stored rows
TranscriptText(transcript) ==
    [i \in 1..Len(transcript) |->
        Line(transcript[i].speaker, transcript[i].timestamp \div 60,
             PadStart2(transcript[i].timestamp % 60), transcript[i].text)]

\* the request arrives: storage.getSummaryByType(id, type) is called
SummaryArrive(id, type) ==
    /\ Accept(NewRequest("summary", id, type, "", "summary",
                         getSummaryByType(id, type)))
    /\ UNCHANGED <<storeVars, clock, files, pipe, gen, genCalls, failed>>

\* lines 213-215 and 232: answer the stored content, or call getRecording
SummaryLookup(q) ==
    /\ At(q, "summary", "summary")
    /\ reqs' = IF reqs[q].val # Undefined
               THEN Respond(q, 200, reqs[q].val[1].content)
               ELSE SetReq(q, [pc |-> "recording",
                               val |-> getRecording(reqs[q].id)])
    /\ UNCHANGED <<storeVars, clock, files, pipe, gen, genCalls, failed>>

\* lines 216-220: 404, or call getTranscriptByRecordingId
SummaryRecording(q) ==
    /\ At(q, "summary", "recording")
    /\ reqs' = IF reqs[q].val = Undefined
               THEN Respond(q, 404, "Recording not found")
               ELSE SetReq(q, [pc |-> "transcript",
                               val |-> getTranscriptByRecordingId(reqs[q].id)])
    /\ UNCHANGED <<storeVars, clock, files, pipe, gen, genCalls, failed>>

\* lines 221-228: 404, or generateSummary runs up to its completion request
SummaryTranscript(q) ==
    /\ At(q, "summary", "transcript")
    /\ IF Len(reqs[q].val) = 0
       THEN /\ reqs' = Respond(q, 404, "Transcript not found")
            /\ UNCHANGED genCalls
       ELSE /\ reqs' = SetReq(q, [pc |-> "generate", called |-> reqs[q].called + 1])
            /\ genCalls' = genCalls + 1
    /\ UNCHANGED <<storeVars, clock, files, pipe, gen, failed>>

\* the completion returns: createSummary stores the row (lines 464-473) and
\* the handler answers the stored row's content (line 229)
SummaryGenerateReturn(q, content) ==
    /\ At(q, "summary", "generate")
    /\ summaries' = createSummary([recordingId |-> reqs[q].id,
                                   type |-> reqs[q].type, content |-> content])
    /\ summaryIdCounter' = summaryIdCounter + 1
    /\ reqs' = [Respond(q, 200, summaries'[summaryIdCounter].content)
                    EXCEPT ![q].made = @ + 1]
    /\ UNCHANGED <<recordings, transcripts, chatMessages, recordingIdCounter,
                   transcriptIdCounter, chatMessageIdCounter,
                   clock, files, pipe, gen, genCalls, failed>>

\* the completion throws: the handler's catch answers 500
SummaryGenerateThrow(q) ==
    /\ At(q, "summary", "generate")
    /\ reqs' = Respond(q, 500, "Failed to get summary")
    /\ UNCHANGED <<storeVars, clock, files, pipe, gen, genCalls, failed>>

(* POST /api/recordings/:id/chat *)

\* the request arrives: 400 without a message, else getRecording is called
ChatArrive(id, message) ==
    /\ IF message = ""
       THEN Accept([NewRequest("chat", id, "", "", "done", <<>>) EXCEPT
                        !.status = 400, !.body = "No message provided"])
       ELSE Accept(NewRequest("chat", id, "", message, "recording",
                              getRecording(id)))
    /\ UNCHANGED <<storeVars, clock, files, pipe, gen, genCalls, failed>>

\* lines 249-253: 404, or call getTranscriptByRecordingId
ChatRecording(q) ==
    /\ At(q, "chat", "recording")
    /\ reqs' = IF reqs[q].val = Undefined
               THEN Respond(q, 404, "Recording not found")
               ELSE SetReq(q, [pc |-> "transcript",
                               val |-> getTranscriptByRecordingId(reqs[q].id)])
    /\ UNCHANGED <<storeVars, clock, files, pipe, gen, genCalls, failed>>

\* a check that lets every transcript through
TranscriptNeverMissing(transcript) == FALSE

\* whether the handler answers 404 "Transcript not found" (line 254)
TranscriptMissing(transcript) == Len(transcript) = 0

\* lines 254-263: 404, or createChatMessage of the user message
ChatTranscript(q, tick) ==
    /\ At(q, "chat", "transcript")
    /\ IF TranscriptMissing(reqs[q].val)
       THEN /\ reqs' = Respond(q, 404, "Transcript not found")
            /\ UNCHANGED <<chatMessages, chatMessageIdCounter, clock>>
       ELSE /\ chatMessages' = createChatMessage(
                    [recordingId |-> reqs[q].id, role |-> "user",
                     content |-> reqs[q].message], clock + tick)
            /\ chatMessageIdCounter' = chatMessageIdCounter + 1
            /\ clock' = clock + tick
            /\ reqs' = SetReq(q, [pc |-> "user", made |-> reqs[q].made + 1])
    /\ UNCHANGED <<recordings, transcripts, summaries, recordingIdCounter,
                   transcriptIdCounter, summaryIdCounter,
                   files, pipe, gen, genCalls, failed>>

\* lines 265-282: the completion request is sent
ChatAsk(q) ==
    /\ At(q, "chat", "user")
    /\ reqs' = SetReq(q, [pc |-> "generate", called |-> reqs[q].called + 1])
    /\ genCalls' = genCalls + 1
    /\ UNCHANGED <<storeVars, clock, files, pipe, gen, failed>>

\* the completion returns: lines 284-293
ChatGenerateReturn(q, content, tick) ==
    /\ At(q, "chat", "generate")
    /\ chatMessages' = createChatMessage(
            [recordingId |-> reqs[q].id, role |-> "assistant",
             content |-> content], clock + tick)
    /\ chatMessageIdCounter' = chatMessageIdCounter + 1
    /\ clock' = clock + tick
    /\ reqs' = [Respond(q, 200, content) EXCEPT ![q].made = @ + 1]
    /\ UNCHANGED <<recordings, transcripts, summaries, recordingIdCounter,
                   transcriptIdCounter, summaryIdCounter,
                   files, pipe, gen, genCalls, failed>>

\* the completion throws: the handler's catch answers 500
ChatGenerateThrow(q) ==
    /\ At(q, "chat", "generate")
    /\ reqs' = Respond(q, 500, "Failed to process chat message")
    /\ UNCHANGED <<storeVars, clock, files, pipe, gen, genCalls, failed>>

(* GET /api/recordings/:id/status *)

\* a projection that looks at processed first
getStatusProcessedFirst(recording) ==
    IF recording.processed
    THEN [progress |-> 75, status |-> "Generating insights"]
    ELSE IF recording.transcribed
    THEN [progress |-> 100, status |-> "Completed"]
    ELSE [progress |-> 25, status |-> "Transcribing audio"]

\* a projection that reports 100 only when both flags are set
getStatusNeedsBoth(recording) ==
    IF recording.transcribed /\ recording.processed
    THEN [progress |-> 100, status |-> "Completed"]
    ELSE IF recording.processed
    THEN [progress |-> 75, status |-> "Generating insights"]
    ELSE [progress |-> 25, status |-> "Transcribing audio"]

\* lines 172-187: progress and status of the recording that was read
getStatus(recording) ==
    IF recording.transcribed
    THEN [progress |-> 100, status |-> "Completed"]
    ELSE IF recording.processed
    THEN [progress |-> 75, status |-> "Generating insights"]
    ELSE [progress |-> 25, status |-> "Transcribing audio"]

\* the request arrives: storage.getRecording(id) is called
StatusArrive(id) ==
    /\ Accept(NewRequest("status", id, "", "", "recording", getRecording(id)))
    /\ UNCHANGED <<storeVars, clock, files, pipe, gen, genCalls, failed>>

\* lines 168-187: 404, or the projection of the recording that was read
StatusAnswer(q) ==
    /\ At(q, "status", "recording")
    /\ reqs' = IF reqs[q].val = Undefined
               THEN Respond(q, 404, "Recording not found")
               ELSE Respond(q, 200, getStatus(reqs[q].val[1]))
    /\ UNCHANGED <<storeVars, clock, files, pipe, gen, genCalls, failed>>

----------------------------------------------------------------------------
(* Inputs *)

\* parseInt(req.body.duration) || 0, and the 0 of /api/recordings/upload
Durations == {0, 7}

\* how far new Date() moved since the last call
Ticks == {0, 1}

\* what a completion returns
Contents == {"c1", "c2"}

\* segment.start of the i-th returned segment, in tenths of a second:
\* 59.6 s, 12.4 s, 3.5 s, ...
StartOf(i) == <<596, 124, 35, 7>>[i]

TextOf(i) == <<"t1", "t2", "t3", "t4">>[i]

Segments(n) == [i \in 1..n |-> [start |-> StartOf(i), text |-> TextOf(i)]]

\* a verbose_json result with n segments lasting 61.4 s
Segmented(n) ==
    [hasSegments |-> TRUE, segments |-> Segments(n), text |-> "whole",
     duration |-> 614]

\* a result without segments
Unsegmented(text) ==
    [hasSegments |-> FALSE, segments |-> <<>>, text |-> text, duration |-> 614]

\* the results the transcription call returns in Spec: an empty segment
\* list, two segments, no segment list
Transcriptions == {Segmented(0), Segmented(2), Unsegmented("whole")}

\* the recordings created so far, and the handlers accepted so far
Ids == DOMAIN pipe
Reqs == 1..Len(reqs)

----------------------------------------------------------------------------
(* Specifications *)

Init ==
    /\ recordings = EmptyMap
    /\ transcripts = EmptyMap
    /\ summaries = EmptyMap
    /\ chatMessages = EmptyMap
    /\ recordingIdCounter = 1
    /\ transcriptIdCounter = 1
    /\ summaryIdCounter = 1
    /\ chatMessageIdCounter = 1
    /\ clock = 0
    /\ files = {}
    /\ pipe = EmptyMap
    /\ gen = {}
    /\ reqs = <<>>
    /\ genCalls = 0
    /\ failed = {}

\* the steps of processRecording for recording id, once the POST handler has
\* created it; T is what the transcription call may return
RunOf(id, T) ==
    \/ PostDispatch(id)
    \/ ReadFileReturn(id)
    \/ ReadFileThrow(id)
    \/ \E t \in T : TranscribeReturn(id, t)
    \/ TranscribeThrow(id)
    \/ ResumeProcessed(id)
    \/ ResumeSegment(id)
    \/ ResumeFallback(id)
    \/ ResumeTranscribed(id)
    \/ ResumeCatch(id)

\* the same steps, of every run
Run(T) ==
    \/ \E id \in Ids : PostDispatch(id)
    \/ \E id \in Ids : ReadFileReturn(id)
    \/ \E id \in Ids : ReadFileThrow(id)
    \/ \E id \in Ids, t \in T : TranscribeReturn(id, t)
    \/ \E id \in Ids : TranscribeThrow(id)
    \/ \E id \in Ids : ResumeProcessed(id)
    \/ \E id \in Ids : ResumeSegment(id)
    \/ \E id \in Ids : ResumeFallback(id)
    \/ \E id \in Ids : ResumeTranscribed(id)
    \/ \E id \in Ids : ResumeCatch(id)

\* the DELETE handler once the request is accepted
Delete ==
    \/ \E q \in Reqs : DeleteCheck(q)
    \/ \E q \in Reqs : UnlinkDone(q)
    \/ \E q \in Reqs : UnlinkThrow(q)
    \/ \E q \in Reqs : DeleteAfterUnlink(q)

(* Spec: recordings are created, processed and deleted. The completions of *)
(* the fan-out stay pending.                                               *)
Lifecycle(durations) ==
    \/ /\ recordingIdCounter <= MaxRecordings
       /\ \E duration \in durations : PostCreate(duration, 1)
    \/ /\ Len(reqs) < MaxRequests
       /\ \E id \in 1..MaxRecordings : DeleteArrive(id)
    \/ Run(Transcriptions)
    \/ Delete

Next == Lifecycle(Durations)

Spec == Init /\ [][Next]_vars

\* what the transcription call returns in the specifications below: one
\* segment, or a text without segments
FanOutTranscriptions == {Segmented(1), Unsegmented("whole")}

(* SpecLive: the recordings of POST /api/recordings/upload, where every     *)
(* promise a run awaits settles: the file read and the transcription call  *)
(* return or throw, and a continuation that is ready runs. Nothing is      *)
(* assumed of the clients.                                                 *)
NextLive ==
    \/ /\ recordingIdCounter <= MaxRecordings
       /\ PostCreate(0, 1)
    \/ /\ Len(reqs) < MaxRequests
       /\ \E id \in 1..MaxRecordings : DeleteArrive(id)
    \/ Run(FanOutTranscriptions)
    \/ Delete

SpecLive ==
    /\ Init
    /\ [][NextLive]_vars
    /\ \A id \in 1..MaxRecordings : WF_vars(RunOf(id, FanOutTranscriptions))

(* SpecDelete: Spec for the upload route with concurrent DELETE requests. *)
NextDelete ==
    \/ /\ recordingIdCounter <= MaxRecordings
       /\ PostCreate(0, 1)
    \/ /\ Len(reqs) < MaxDeletes
       /\ \E id \in 1..MaxRecordings : DeleteArrive(id)
    \/ Run(Transcriptions)
    \/ Delete

SpecDelete == Init /\ [][NextDelete]_vars

(* SpecFanOut: uploads are processed and the completions of the fan-out    *)
(* return or throw, in any order. No recording is deleted.                 *)
AllAnswered == \A q \in Reqs : reqs[q].pc = "done"

Quiescent ==
    /\ AllAnswered
    /\ gen = {}
    /\ \A id \in Ids : pipe[id].pc \in {"done", "rejected"}

\* a file is uploaded once the runs and calls of the earlier uploads ended
Uploads ==
    \/ /\ recordingIdCounter <= MaxRecordings
       /\ Quiescent
       /\ PostCreate(0, 1)
    \/ Run(FanOutTranscriptions)

NextFanOut ==
    \/ Uploads
    \/ \E task \in gen : GenerateReturn(task, "c1")
    \/ \E task \in gen : GenerateThrow(task)

SpecFanOut == Init /\ [][NextFanOut]_vars

(* SpecSucceed: SpecFanOut where every completion of the fan-out returns,  *)
(* every promise a run awaits settles and every completion arrives.        *)
CompleteOf(id) ==
    \E task \in gen : task.recordingId = id /\ GenerateReturn(task, "c1")

NextSucceed ==
    \/ Uploads
    \/ \E task \in gen : GenerateReturn(task, "c1")

SpecSucceed ==
    /\ Init
    /\ [][NextSucceed]_vars
    /\ \A id \in 1..MaxRecordings :
            WF_vars(RunOf(id, FanOutTranscriptions)) /\ WF_vars(CompleteOf(id))

(* SpecReady: recordings are created, processed and deleted, and the      *)
(* 'general' call of each fan-out returns or throws; the other calls stay  *)
(* pending.                                                                *)
NextReady ==
    \/ /\ recordingIdCounter <= MaxRecordings
       /\ PostCreate(0, 1)
    \/ /\ Len(reqs) < MaxRequests
       /\ \E id \in 1..MaxRecordings : DeleteArrive(id)
    \/ Run(FanOutTranscriptions)
    \/ Delete
    \/ \E task \in gen : task.type = "general" /\ GenerateReturn(task, "c1")
    \/ \E task \in gen : task.type = "general" /\ GenerateThrow(task)

SpecReady == Init /\ [][NextReady]_vars

(* SpecSolo: uploads are processed, and GET summary requests are sent one  *)
(* at a time once every run and every call of a fan-out has ended; nothing *)
(* else steps while a request is being handled, since an upload waits for  *)
(* the requests to be answered.                                            *)
\* the calls of a fan-out whose completion may return; the others throw
SoloReturns == {"general", "timeline"}

\* the :type of the requests: one the fan-out generates, one it does not
SoloTypes == {"general", "other"}

Get ==
    \/ \E q \in Reqs : SummaryLookup(q)
    \/ \E q \in Reqs : SummaryRecording(q)
    \/ \E q \in Reqs : SummaryTranscript(q)
    \/ \E q \in Reqs, content \in Contents : SummaryGenerateReturn(q, content)
    \/ \E q \in Reqs : SummaryGenerateThrow(q)

NextSolo ==
    \/ Uploads
    \/ \E task \in gen : task.type \in SoloReturns /\ GenerateReturn(task, "c1")
    \/ \E task \in gen : GenerateThrow(task)
    \/ /\ Quiescent
       /\ Len(reqs) < MaxGets
       /\ \E id \in 1..MaxRecordings, type \in SoloTypes : SummaryArrive(id, type)
    \/ Get

SpecSolo == Init /\ [][NextSolo]_vars

(* SpecChat: uploads are processed while POST chat requests are handled;   *)
(* the calls of the fan-out stay pending.                                  *)
Messages == {"", "hi"}

Chat ==
    \/ \E q \in Reqs : ChatRecording(q)
    \/ \E q \in Reqs, tick \in Ticks : ChatTranscript(q, tick)
    \/ \E q \in Reqs : ChatAsk(q)
    \/ \E q \in Reqs, tick \in Ticks : ChatGenerateReturn(q, "c1", tick)
    \/ \E q \in Reqs : ChatGenerateThrow(q)

NextChat ==
    \/ /\ recordingIdCounter <= MaxRecordings
       /\ PostCreate(0, 1)
    \/ Run(Transcriptions)
    \/ /\ Len(reqs) < MaxChats
       /\ \E id \in 1..MaxRecordings, message \in Messages : ChatArrive(id, message)
    \/ Chat

SpecChat == Init /\ [][NextChat]_vars

(* SpecTurn: SpecChat with concurrent DELETE requests; every chat request *)
(* carries a message.                                                      *)
Count(kind) == Cardinality({q \in Reqs : reqs[q].kind = kind})

NextTurn ==
    \/ /\ recordingIdCounter <= MaxRecordings
       /\ PostCreate(0, 1)
    \/ Run(FanOutTranscriptions)
    \/ /\ Count("chat") < MaxChats
       /\ \E id \in 1..MaxRecordings : ChatArrive(id, "hi")
    \/ Chat
    \/ /\ Count("delete") < MaxRequests
       /\ \E id \in 1..MaxRecordings : DeleteArrive(id)
    \/ Delete

SpecTurn == Init /\ [][NextTurn]_vars

(* SpecRace: an upload is processed while GET summary requests for the    *)
(* type 'general' arrive at any moment; the 'general' call of the fan-out  *)
(* returns or throws, the other calls stay pending. No recording is        *)
(* deleted.                                                                *)
RaceTranscriptions == {Segmented(2), Unsegmented("whole")}

NextRace ==
    \/ /\ recordingIdCounter <= MaxRecordings
       /\ PostCreate(0, 1)
    \/ Run(RaceTranscriptions)
    \/ \E task \in gen : task.type = "general" /\ GenerateReturn(task, "c1")
    \/ \E task \in gen : task.type = "general" /\ GenerateThrow(task)
    \/ /\ Count("summary") < MaxGets
       /\ \E id \in 1..MaxRecordings : SummaryArrive(id, "general")
    \/ Get

SpecRace == Init /\ [][NextRace]_vars

(* SpecList: several files are uploaded, two of them possibly within the   *)
(* same millisecond, and processed concurrently, while a caller of the     *)
(* store deletes the oldest recordings.                                    *)
NextList ==
    \/ /\ recordingIdCounter <= MaxUploads
       /\ \E tick \in Ticks : PostCreate(0, tick)
    \/ \E id \in 1..MaxRecordings : DeleteRecording(id)
    \/ Run(FanOutTranscriptions)

SpecList == Init /\ [][NextList]_vars

(* SpecIds: a caller of the store creates recordings, creates segments,    *)
(* summaries and chat messages of the recordings of Owners, stored or not, *)
(* and deletes recordings.                                                 *)
Owners == {1}

NextIds ==
    \/ /\ recordingIdCounter <= MaxRows
       /\ CreateRecording(0, 1)
    \/ /\ transcriptIdCounter <= MaxRows
       /\ \E id \in Owners : CreateTranscript(SegmentRow(id, Segments(1)[1]))
    \/ /\ summaryIdCounter <= MaxRows
       /\ \E id \in Owners :
            CreateSummary([recordingId |-> id, type |-> "general", content |-> "c1"])
    \/ /\ chatMessageIdCounter <= MaxRows
       /\ \E id \in Owners :
            CreateChatMessage([recordingId |-> id, role |-> "user",
                               content |-> "hi"], 0)
    \/ \E id \in 1..MaxRows : DeleteRecording(id)

SpecIds == Init /\ [][NextIds]_vars

(* SpecUpdate: a caller of the store creates, updates and deletes          *)
(* recordings; reqs holds its last updateRecording call.                   *)
\* the updateData of the calls: one field, two fields, every field
Updates ==
    {[processed |-> TRUE],
     [duration |-> 61],
     [transcribed |-> TRUE, processed |-> FALSE],
     ErrorUpdate(NewRecording(1, 7, 0))}

NextUpdate ==
    \/ /\ recordingIdCounter <= MaxRows
       /\ \E duration \in Durations : CreateRecording(duration, 1)
    \/ \E id \in 1..MaxRows, updateData \in Updates :
            UpdateRecording(id, updateData)
    \/ \E id \in 1..MaxRows : DeleteRecording(id)

SpecUpdate == Init /\ [][NextUpdate]_vars

(* SpecStatus: recordings are created and processed while clients poll     *)
(* GET status.                                                             *)
NextStatus ==
    \/ /\ recordingIdCounter <= MaxRecordings
       /\ PostCreate(0, 1)
    \/ Run(Transcriptions)
    \/ /\ Len(reqs) < MaxPolls
       /\ \E id \in 1..MaxRecordings : StatusArrive(id)
    \/ \E q \in Reqs : StatusAnswer(q)

SpecStatus == Init /\ [][NextStatus]_vars

----------------------------------------------------------------------------
(* Claims *)

Stored(id) == id \in DOMAIN recordings

\* the run for id has ended and the recording is still stored
Ended(id) == Running(id) /\ pipe[id].pc = "done" /\ Stored(id)

SegmentsOf(id) == {k \in DOMAIN transcripts : transcripts[k].recordingId = id}
SummariesOf(id) == {k \in DOMAIN summaries : summaries[k].recordingId = id}
MessagesOf(id) == {k \in DOMAIN chatMessages : chatMessages[k].recordingId = id}

\* C1 (as claimed): in every reachable state every stored recording that has
\* transcribed = true has processed = true.
C1_TranscribedImpliesProcessed ==
    \A id \in DOMAIN recordings :
        recordings[id].transcribed => recordings[id].processed

\* GET status answers 100 "Completed" for recording id
Completed(id) ==
    /\ recordings[id].transcribed
    /\ getStatus(recordings[id]) = [progress |-> 100, status |-> "Completed"]

\* a DELETE of recording id has answered 200
Deleted(id) ==
    \E q \in Reqs :
        reqs[q].kind = "delete" /\ reqs[q].id = id /\ reqs[q].status = 200

\* C2 (as claimed): once a DELETE of a recording has completed, no segment,
\* summary or chat message of that recording is stored or returned by
\* getTranscriptByRecordingId, getSummaryByType or getChatMessages.
C2_NothingSurvivesDelete ==
    \A id \in Ids :
        Deleted(id) =>
            /\ SegmentsOf(id) = {} /\ SummariesOf(id) = {} /\ MessagesOf(id) = {}
            /\ getTranscriptByRecordingId(id) = <<>>
            /\ getChatMessages(id) = <<>>
            /\ \A type \in SummaryTypes : getSummaryByType(id, type) = Undefined

\* handler q calls deleteRecording in this step
DeleteStep(q) ==
    reqs[q].kind = "delete" /\ reqs[q].status = 0 /\ reqs'[q].status = 200

\* map m2 is map m without exactly the rows recording id owns
Cascaded(m, m2, id) ==
    /\ DOMAIN m2 = {k \in DOMAIN m : m[k].recordingId # id}
    /\ \A k \in DOMAIN m2 : m2[k] = m[k]

\* C3 (as claimed): deleteRecording(id) removes the recording id and exactly
\* the segments, summaries and chat messages it owns in one step, leaves the
\* counters alone, and leaves the whole store unchanged when id is absent.
C3_DeleteIsExactCascade ==
    [][\A q \in Reqs :
         DeleteStep(q) =>
            LET id == reqs[q].id
            IN  /\ DOMAIN recordings' = (DOMAIN recordings) \ {id}
                /\ \A k \in DOMAIN recordings' : recordings'[k] = recordings[k]
                /\ Cascaded(transcripts, transcripts', id)
                /\ Cascaded(summaries, summaries', id)
                /\ Cascaded(chatMessages, chatMessages', id)
                /\ UNCHANGED <<recordingIdCounter, transcriptIdCounter,
                               summaryIdCounter, chatMessageIdCounter>>
                /\ id \notin DOMAIN recordings => UNCHANGED storeVars]_vars

\* C4: a stored recording is eventually either deleted or transcribed, with
\* GET status answering 100 "Completed", and it keeps that answer for as long
\* as it is stored.
C4_PollingTerminates ==
    /\ \A id \in 1..MaxRecordings :
            Stored(id) ~> (~Stored(id) \/ Completed(id))
    /\ [][\A id \in DOMAIN recordings :
            (Completed(id) /\ id \in DOMAIN recordings') => Completed(id)']_vars

\* C4 witness: a run whose transcription call threw has ended with the
\* recording stored and reported as completed.
C4_Witness ==
    \E id \in Ids :
        /\ Ended(id) /\ pipe[id].threw = "transcribe"
        /\ getStatus(recordings[id]).progress = 100

\* C5: when the transcription call threw, the recording has no transcript
\* segment and the run dispatched no summary generation; once the run has ended
\* and the recording is still stored, it has processed = true and
\* transcribed = true.
C5_TranscriptionFailure ==
    \A id \in Ids :
        pipe[id].threw = "transcribe" =>
            /\ SegmentsOf(id) = {}
            /\ ~pipe[id].dispatched
            /\ \A task \in gen : task.recordingId # id
            /\ Ended(id) => /\ recordings[id].processed
                            /\ recordings[id].transcribed

\* C5 witness: such a run has ended and its recording is stored.
C5_Witness ==
    \E id \in Ids : Ended(id) /\ pipe[id].threw = "transcribe"

\* C6 (as claimed): after a run in which nothing threw, the stored recording
\* has processed = true and transcribed = true.
C6_SuccessEndsReady ==
    \A id \in Ids :
        (Ended(id) /\ pipe[id].threw = "") =>
            /\ recordings[id].processed
            /\ recordings[id].transcribed
\* the summary types recording id has a stored row of
TypesOf(id) == {summaries[k].type : k \in SummariesOf(id)}

\* the five summary types of the claims
FiveTypes == {"general", "mental-models", "1-on-1", "sales", "timeline"}

\* the calls of recording id's fan-out that are pending, and that threw
PendingOf(id) == {task \in gen : task.recordingId = id}
FailedOf(id) == {task \in failed : task.recordingId = id}

\* C7: once a run has dispatched its fan-out, and every completion returns,
\* eventually a summary row is stored for each of the five types; the rows a
\* run creates are of the five types only, at most one of each type, and
\* exactly five once no completion is pending.
C7_FiveSummariesEventually ==
    /\ \A id \in 1..MaxRecordings :
            (Running(id) /\ pipe[id].dispatched) ~> (FiveTypes \subseteq TypesOf(id))
    /\ [](\A id \in Ids :
            /\ TypesOf(id) \subseteq FiveTypes
            /\ Cardinality(SummariesOf(id)) = Cardinality(TypesOf(id))
            /\ (pipe[id].dispatched /\ PendingOf(id) = {}) =>
                    Cardinality(SummariesOf(id)) = 5)

\* C7 witness: a run's fan-out has completed with its five rows stored.
C7_Witness ==
    \E id \in Ids :
        /\ pipe[id].dispatched /\ PendingOf(id) = {}
        /\ TypesOf(id) = FiveTypes

\* C8: after every step, every call of a dispatched fan-out is pending, threw
\* itself, or has its summary row stored, whatever the others did; a step in
\* which a call throws ends that call alone and changes no recording and no
\* summary.
C8_FailuresAreIsolated ==
    [][/\ \A id \in DOMAIN pipe' :
            pipe'[id].dispatched =>
                \A type \in SummaryTypes :
                    LET task == [recordingId |-> id, type |-> type]
                    IN  \/ task \in gen'
                        \/ task \in failed'
                        \/ \E k \in DOMAIN summaries' :
                                /\ summaries'[k].recordingId = id
                                /\ summaries'[k].type = type
       /\ failed' # failed =>
            /\ gen \ gen' = failed' \ failed
            /\ Cardinality(failed' \ failed) = 1
            /\ recordings' = recordings
            /\ summaries' = summaries]_vars

\* C8 witness: two calls of one fan-out threw and the other three rows are
\* stored.
C8_Witness ==
    \E id \in Ids :
        /\ Cardinality(FailedOf(id)) = 2
        /\ Cardinality(TypesOf(id)) = 3
        /\ PendingOf(id) = {}
\* the stored summary rows of recording id and type, in id order
RowsOf(id, type) ==
    LET match(s) == s.recordingId = id /\ s.type = type
    IN  SelectSeq(Values(summaries), match)

\* handler q answers in this step
Answers(q) == reqs[q].pc # "done" /\ reqs'[q].pc = "done"

\* C9: when a GET summary/t that runs alone answers for a stored recording
\* with at least one segment, then (a) if no row of type t was stored, it
\* made exactly one generation call and, the call having returned, exactly
\* one row of (recording, t) is stored, created by this request, and the
\* answer is that row's content; (b) if the request before it was a GET of
\* the same recording and type that answered 200, it answers 200 with the
\* same content, makes no generation call and leaves the summaries as they
\* were.
C9_LazySummaryOnce ==
    [][\A q \in Reqs :
        (reqs[q].kind = "summary" /\ Answers(q) /\ Stored(reqs[q].id)
            /\ SegmentsOf(reqs[q].id) # {}) =>
            LET id   == reqs[q].id
                type == reqs[q].type
                rows == {k \in DOMAIN summaries' :
                            /\ summaries'[k].recordingId = id
                            /\ summaries'[k].type = type}
            IN  /\ RowsOf(id, type) = <<>> =>
                    /\ reqs'[q].called = 1
                    /\ reqs'[q].status # 500 =>
                        /\ reqs'[q].status = 200
                        /\ reqs'[q].made = 1
                        /\ Cardinality(rows) = 1
                        /\ \A k \in rows : reqs'[q].body = summaries'[k].content
                /\ (/\ q > 1
                    /\ reqs[q-1].kind = "summary"
                    /\ reqs[q-1].id = id
                    /\ reqs[q-1].type = type
                    /\ reqs[q-1].status = 200) =>
                        /\ reqs'[q].status = 200
                        /\ reqs'[q].body = reqs[q-1].body
                        /\ reqs'[q].called = 0
                        /\ reqs'[q].made = 0
                        /\ summaries' = summaries
                        /\ summaryIdCounter' = summaryIdCounter]_vars

\* C9 witness: a GET generated and stored the row of a type, and the GET
\* after it answered the same content without generating.
C9_Witness ==
    \E q \in Reqs :
        /\ q > 1
        /\ reqs[q].kind = "summary" /\ reqs[q-1].kind = "summary"
        /\ reqs[q].pc = "done"
        /\ reqs[q].id = reqs[q-1].id /\ reqs[q].type = reqs[q-1].type
        /\ reqs[q-1].status = 200 /\ reqs[q-1].called = 1 /\ reqs[q-1].made = 1
        /\ reqs[q].status = 200 /\ reqs[q].called = 0
        /\ reqs[q].body = reqs[q-1].body
        /\ Len(RowsOf(reqs[q].id, reqs[q].type)) = 1

\* C10: the transcript a POST chat with a message reads is the stored
\* segments of the recording; when it holds zero segments the handler
\* answers 404 in its next step, having created no chat message and made no
\* generation call, and that step changes nothing in the store.
C10_ChatNeedsTranscript ==
    [][\A q \in Reqs :
        /\ (At(q, "chat", "recording") /\ reqs'[q].pc = "transcript") =>
                Len(reqs'[q].val) = Cardinality(SegmentsOf(reqs[q].id))
        /\ (At(q, "chat", "transcript") /\ reqs'[q] # reqs[q]
                /\ Len(reqs[q].val) = 0) =>
                /\ reqs'[q].pc = "done"
                /\ reqs'[q].status = 404
                /\ reqs'[q].made = 0
                /\ reqs'[q].called = 0
                /\ storeVars' = storeVars
                /\ genCalls' = genCalls]_vars

\* C10 witness: a POST chat for a stored recording whose transcription call
\* threw has answered 404 "Transcript not found".
C10_Witness ==
    \E q \in Reqs :
        /\ reqs[q].kind = "chat" /\ reqs[q].pc = "done"
        /\ reqs[q].status = 404 /\ reqs[q].body = "Transcript not found"
        /\ Stored(reqs[q].id)
        /\ Running(reqs[q].id) /\ pipe[reqs[q].id].threw = "transcribe"
        /\ chatMessages = EmptyMap /\ genCalls = 0
\* C11: a GET status reads the stored recording when it arrives and answers
\* 404 when there is none, else 200 with 100 "Completed" when the row read
\* has transcribed = true (whatever processed is), 75 "Generating insights"
\* when it has processed = true and transcribed = false, 25 "Transcribing
\* audio" when both are false; no step of the handler changes the store.
C11_StatusProjection ==
    [][\A q \in 1..Len(reqs') :
        (reqs'[q].kind = "status" /\ (q \notin Reqs \/ reqs'[q] # reqs[q])) =>
            /\ storeVars' = storeVars
            /\ q \notin Reqs =>
                reqs'[q].val = IF Stored(reqs'[q].id)
                               THEN <<recordings[reqs'[q].id]>> ELSE <<>>
            /\ (q \in Reqs /\ reqs[q].val = <<>>) => reqs'[q].status = 404
            /\ (q \in Reqs /\ reqs[q].val # <<>>) =>
                LET read == reqs[q].val[1]
                IN  /\ reqs'[q].status = 200
                    /\ read.transcribed =>
                        reqs'[q].body = [progress |-> 100, status |-> "Completed"]
                    /\ (read.processed /\ ~read.transcribed) =>
                        reqs'[q].body =
                            [progress |-> 75, status |-> "Generating insights"]
                    /\ (~read.processed /\ ~read.transcribed) =>
                        reqs'[q].body =
                            [progress |-> 25, status |-> "Transcribing audio"]]_vars

\* C11 witness: the three answers were given, 100 "Completed" for a row
\* stored with processed = false and transcribed = true.
C11_Witness ==
    \E q \in Reqs :
        /\ reqs[q].kind = "status" /\ reqs[q].status = 200
        /\ reqs[q].body = [progress |-> 100, status |-> "Completed"]
        /\ Stored(reqs[q].id)
        /\ ~recordings[reqs[q].id].processed
        /\ recordings[reqs[q].id].transcribed
\* the run of recording id ended without any await throwing, and the
\* recording is stored
Succeeded(id) == Ended(id) /\ pipe[id].threw = ""

\* C12: after a run in which nothing threw, a transcription without a
\* segment list has left exactly one segment of the recording, with
\* timestamp 0 and speaker "Speaker"; a transcription with a segment list
\* has left exactly one segment per returned segment (the i-th inserted
\* carrying the i-th text), each with speaker "Speaker".
C12_SegmentsPersisted ==
    \A id \in Ids :
        Succeeded(id) =>
            LET t    == pipe[id].transcription
                owned(r) == r.recordingId = id
                rows == SelectSeq(Values(transcripts), owned)
            IN  /\ \A i \in 1..Len(rows) : rows[i].speaker = "Speaker"
                /\ ~t.hasSegments =>
                        Len(rows) = 1 /\ rows[1].timestamp = 0
                /\ t.hasSegments =>
                        /\ Len(rows) = Len(t.segments)
                        /\ \A i \in 1..Len(rows) : rows[i].text = t.segments[i].text

\* C12 witness: a run whose transcription had no segment list succeeded and
\* left one segment.
C12_Witness ==
    \E id \in Ids :
        /\ Succeeded(id)
        /\ ~pipe[id].transcription.hasSegments
        /\ Cardinality(SegmentsOf(id)) = 1

\* C13: in every state, for every recording id, getTranscriptByRecordingId
\* returns each stored segment of that recording exactly once, nothing else,
\* in non-decreasing timestamp order.
C13_TranscriptSorted ==
    \A id \in 1..MaxRecordings :
        LET r == getTranscriptByRecordingId(id)
        IN  /\ Len(r) = Cardinality(SegmentsOf(id))
            /\ {r[i].id : i \in 1..Len(r)} = SegmentsOf(id)
            /\ \A i \in 1..Len(r) : r[i] = transcripts[r[i].id]
            /\ \A i \in 1..Len(r), j \in 1..Len(r) :
                    i < j => r[i].timestamp <= r[j].timestamp

\* C13 witness: a recording has two segments, the later timestamp inserted
\* first, while its run is still inserting or after it.
C13_Witness ==
    \E k1 \in DOMAIN transcripts, k2 \in DOMAIN transcripts :
        /\ k1 < k2
        /\ transcripts[k1].recordingId = transcripts[k2].recordingId
        /\ transcripts[k1].timestamp > transcripts[k2].timestamp
\* C14: in every state getAllRecordings returns each stored recording
\* exactly once, nothing else, in non-increasing createdAt order, recordings
\* with equal createdAt in the order of their creation; no step changes the
\* createdAt of a recording that stays stored, so no update moves it.
C14_RecordingsListed ==
    /\ [](LET r == getAllRecordings
          IN  /\ Len(r) = Cardinality(DOMAIN recordings)
              /\ {r[i].id : i \in 1..Len(r)} = DOMAIN recordings
              /\ \A i \in 1..Len(r) : r[i] = recordings[r[i].id]
              /\ \A i \in 1..Len(r), j \in 1..Len(r) :
                      i < j => \/ r[i].createdAt > r[j].createdAt
                               \/ /\ r[i].createdAt = r[j].createdAt
                                  /\ r[i].id < r[j].id)
    /\ [][\A a \in DOMAIN recordings \cap DOMAIN recordings' :
            recordings'[a].createdAt = recordings[a].createdAt]_vars

\* C14 witness: two recordings are stored, the first one updated by its run
\* after the second was created, and the second is listed first.
C14_Witness ==
    /\ DOMAIN recordings = {1, 2}
    /\ recordings[1].transcribed /\ ~recordings[2].transcribed
    /\ recordings[1].createdAt < recordings[2].createdAt
    /\ getAllRecordings[1].id = 2
\* a step in which the map m with counter c either gets no new key and
\* keeps its counter, or gets the one key c, with a row of id c, and moves
\* its counter to c + 1
HandsOut(m, m2, c, c2) ==
    IF DOMAIN m2 \subseteq DOMAIN m
    THEN c2 = c
    ELSE /\ DOMAIN m2 \ DOMAIN m = {c}
         /\ m2[c].id = c
         /\ c2 = c + 1

\* every key of map m was handed out by counter c
HandedOut(m, c) == c >= 1 /\ \A k \in DOMAIN m : k >= 1 /\ k < c /\ m[k].id = k

\* C15: the four counters start at 1; in every step each kind on its own
\* either creates nothing and keeps its counter or creates one row whose id
\* is the counter's value and increments the counter; every stored id is
\* below its counter, so an id is never handed out twice, deleted or not.
C15_IdsNeverReused ==
    /\ recordingIdCounter = 1 /\ transcriptIdCounter = 1
    /\ summaryIdCounter = 1 /\ chatMessageIdCounter = 1
    /\ [](/\ HandedOut(recordings, recordingIdCounter)
          /\ HandedOut(transcripts, transcriptIdCounter)
          /\ HandedOut(summaries, summaryIdCounter)
          /\ HandedOut(chatMessages, chatMessageIdCounter))
    /\ [][/\ HandsOut(recordings, recordings',
                      recordingIdCounter, recordingIdCounter')
          /\ HandsOut(transcripts, transcripts',
                      transcriptIdCounter, transcriptIdCounter')
          /\ HandsOut(summaries, summaries',
                      summaryIdCounter, summaryIdCounter')
          /\ HandsOut(chatMessages, chatMessages',
                      chatMessageIdCounter, chatMessageIdCounter')]_vars

\* C15 witness: recording 1 was deleted with a segment, a summary and a
\* chat message of its own, and rows of the four kinds were created after.
C15_Witness ==
    /\ DOMAIN recordings = {2}
    /\ DOMAIN transcripts = {2}
    /\ DOMAIN summaries = {2}
    /\ DOMAIN chatMessages = {2}

\* the POST handler of recording id answers in this step
PostAnswers(id) ==
    /\ id \in DOMAIN pipe /\ pipe[id].response.status = 0
    /\ pipe'[id].response.status # 0

\* C16: the step that accepts a create request stores the recording with
\* processed = false and transcribed = false; the handler's next step
\* starts the one run of the recording, which stops at its file read, and
\* answers 201 with the row as created, both flags false, leaving the store
\* as it is; the answer never changes afterwards, whatever the run does.
C16_CreateAnswersAtOnce ==
    [][\A id \in DOMAIN pipe' :
        /\ id \notin DOMAIN pipe =>
            /\ id \in DOMAIN recordings' /\ id \notin DOMAIN recordings
            /\ ~recordings'[id].processed /\ ~recordings'[id].transcribed
            /\ pipe'[id].pc = "new" /\ pipe'[id].response.status = 0
        /\ (id \in DOMAIN pipe /\ pipe[id].pc = "new" /\ pipe'[id] # pipe[id]) =>
            PostAnswers(id)
        /\ PostAnswers(id) =>
            /\ pipe[id].pc = "new" /\ pipe'[id].pc = "readFile"
            /\ pipe'[id].response.status = 201
            /\ Len(pipe'[id].response.body) = 1
            /\ ~pipe'[id].response.body[1].processed
            /\ ~pipe'[id].response.body[1].transcribed
            /\ pipe'[id].response.body[1].id = id
            /\ storeVars' = storeVars
        /\ (id \in DOMAIN pipe /\ pipe[id].response.status # 0) =>
            /\ pipe'[id].response = pipe[id].response
            /\ pipe'[id].pc # "new"]_vars

\* C16 witness: a create request was answered 201 with false flags, its run
\* failed at the transcription call and stored both flags true.
C16_Witness ==
    \E id \in Ids :
        /\ Ended(id) /\ pipe[id].threw = "transcribe"
        /\ recordings[id].processed /\ recordings[id].transcribed
        /\ pipe[id].response.status = 201
        /\ ~pipe[id].response.body[1].processed
        /\ ~pipe[id].response.body[1].transcribed

\* C17: updateRecording(id, updateData) on a stored id resolves to the
\* stored row with the fields of updateData overwritten and the others
\* kept, stores it under id and changes nothing else; on an absent id the
\* promise rejects and the store is unchanged.
C17_UpdateMerges ==
    [][(reqs' # reqs /\ reqs'[1].kind = "updateRecording") =>
        LET call == reqs'[1]
            id   == call.id
            data == call.val[1]
        IN  IF id \in DOMAIN recordings
            THEN /\ call.pc = "done"
                 /\ DOMAIN recordings' = DOMAIN recordings
                 /\ \A other \in DOMAIN recordings \ {id} :
                        recordings'[other] = recordings[other]
                 /\ DOMAIN recordings'[id] = DOMAIN recordings[id]
                 /\ \A k \in DOMAIN recordings[id] :
                        recordings'[id][k] = IF k \in DOMAIN data THEN data[k]
                                             ELSE recordings[id][k]
                 /\ call.body = <<recordings'[id]>>
                 /\ UNCHANGED <<transcripts, summaries, chatMessages,
                                recordingIdCounter, transcriptIdCounter,
                                summaryIdCounter, chatMessageIdCounter>>
            ELSE /\ call.pc = "rejected"
                 /\ storeVars' = storeVars]_vars

\* C17 witness: a call with the one field duration resolved for recording 2,
\* which keeps the flag an earlier call stored; recording 1 is not stored.
C17_Witness ==
    /\ Len(reqs) = 1 /\ reqs[1].kind = "updateRecording"
    /\ reqs[1].pc = "done" /\ reqs[1].val[1] = [duration |-> 61]
    /\ reqs[1].id = 2 /\ DOMAIN recordings = {2}
    /\ recordings[2] = [id |-> 2, duration |-> 61, processed |-> TRUE,
                        transcribed |-> FALSE, createdAt |-> 2]
\* the number of segments a run inserts for transcription t
Expected(t) == IF t.hasSegments THEN Len(t.segments) ELSE 1

\* the transcription call of recording id has returned
Transcribed(id) ==
    /\ pipe[id].pc \notin {"new", "readFile", "transcribe"}
    /\ pipe[id].threw \notin {"readFile", "transcribe"}

\* C18: for a stored recording whose run has not failed, a segment is
\* inserted only when processed is stored true; transcribed is stored true
\* only when every returned segment is inserted; the fan-out starts only
\* when transcribed is stored true. In every state, a stored recording with
\* transcribed = true whose transcription call returned has its complete
\* segment list returned by getTranscriptByRecordingId.
C18_StagesInOrder ==
    /\ [][\A id \in DOMAIN pipe \cap DOMAIN recordings :
            /\ SegmentsOf(id)' \ SegmentsOf(id) # {} =>
                    /\ recordings[id].processed
                    /\ ~recordings[id].transcribed
            /\ (id \in DOMAIN recordings' /\ pipe'[id].threw = ""
                    /\ recordings'[id].transcribed
                    /\ ~recordings[id].transcribed) =>
                    /\ Cardinality(SegmentsOf(id)) = Expected(pipe[id].transcription)
                    /\ SegmentsOf(id)' = SegmentsOf(id)
            /\ (\E task \in gen' \ gen : task.recordingId = id) =>
                    recordings[id].transcribed]_vars
    /\ [](\A id \in DOMAIN pipe \cap DOMAIN recordings :
            (Transcribed(id) /\ recordings[id].transcribed) =>
                LET r == getTranscriptByRecordingId(id)
                    t == pipe[id].transcription
                IN  /\ Len(r) = Expected(t)
                    /\ t.hasSegments =>
                        {r[i].text : i \in 1..Len(r)} =
                            {t.segments[i].text : i \in 1..Len(t.segments)})

\* C18 witness: a run inserted its two segments, stored transcribed = true
\* and started its fan-out.
C18_Witness ==
    \E id \in DOMAIN pipe \cap DOMAIN recordings :
        /\ pipe[id].dispatched /\ recordings[id].transcribed
        /\ Len(getTranscriptByRecordingId(id)) = 2

\* C19 (as claimed): once the transcription call of a stored recording has
\* returned and the processed update is stored, a recording created with
\* duration 0 has the rounded duration estimate as its duration in every
\* later state; a recording created with another duration keeps it.
C19_DurationKept ==
    \A id \in DOMAIN pipe \cap DOMAIN recordings :
        LET created == pipe[id].recording.duration
        IN  /\ created # 0 => recordings[id].duration = created
            /\ (created = 0 /\ Transcribed(id)) =>
                    recordings[id].duration =
                        MathRound(pipe[id].transcription.duration)

\* C20 (as claimed): the promise of a run never rejects, and a run in which
\* an await threw ends with the recording stored with both flags true.
C20_RunNeverRejects ==
    \A id \in Ids :
        /\ pipe[id].pc # "rejected"
        /\ (pipe[id].pc = "done" /\ pipe[id].threw # "") =>
                /\ Stored(id) \/ Deleted(id)
                /\ Stored(id) =>
                    recordings[id].processed /\ recordings[id].transcribed

\* C21: every recording created so far has one run; processRecording was
\* called for it once as soon as the POST handler resumed, and never again;
\* the run has sent at most one transcription request; and once the
\* transcription call of a run has thrown, no step starts the run again or
\* sends another transcription request for it.
C21_NoRetry ==
    /\ [](/\ Ids = 1..(recordingIdCounter - 1)
          /\ \A id \in Ids :
                /\ pipe[id].started = (IF pipe[id].pc = "new" THEN 0 ELSE 1)
                /\ pipe[id].transcribeCalls <= 1)
    /\ [][\A id \in Ids :
            pipe[id].threw = "transcribe" =>
                /\ pipe'[id].started = pipe[id].started
                /\ pipe'[id].transcribeCalls = pipe[id].transcribeCalls
                /\ pipe'[id].pc \in {"catch", "done", "rejected"}]_vars

\* C21 witness: a run whose one transcription request threw has ended.
C21_Witness ==
    \E id \in Ids :
        /\ pipe[id].threw = "transcribe" /\ pipe[id].pc = "done"
        /\ pipe[id].started = 1 /\ pipe[id].transcribeCalls = 1

\* C22: no step changes any field of a recording that is stored with
\* transcribed = true and stays stored; the only change such a recording
\* undergoes is its removal by deleteRecording, in a step of a DELETE
\* handler.
C22_ReadyIsTerminal ==
    [][\A id \in DOMAIN recordings :
            recordings[id].transcribed =>
                IF id \in DOMAIN recordings'
                THEN recordings'[id] = recordings[id]
                ELSE \E q \in Reqs :
                        /\ reqs[q].kind = "delete" /\ reqs[q].id = id
                        /\ reqs[q].pc # "done" /\ reqs'[q].pc = "done"
                        /\ reqs'[q].status = 200]_vars

\* C22 witness: a recording is stored with transcribed = true after its
\* run dispatched the fan-out and the 'general' call returned.
C22_Witness ==
    \E id \in DOMAIN pipe \cap DOMAIN recordings :
        /\ recordings[id].transcribed /\ pipe[id].dispatched
        /\ \E k \in DOMAIN summaries : summaries[k].recordingId = id

\* the chat messages with the given role that name recording id
RoleOf(id, role) ==
    {k \in DOMAIN chatMessages :
        chatMessages[k].recordingId = id /\ chatMessages[k].role = role}

\* C23 (as claimed): in every state no recording has more assistant
\* messages than user messages; a chat request that has sent its generation
\* call has stored its user message before, and one answered 500 after the
\* generation call failed has stored that one message and no assistant
\* message, and the user message is still stored.
C23_UserBeforeAssistant ==
    /\ \A id \in 1..(recordingIdCounter - 1) :
            Cardinality(RoleOf(id, "assistant")) <= Cardinality(RoleOf(id, "user"))
    /\ \A q \in Reqs :
            reqs[q].kind = "chat" =>
                /\ reqs[q].called = 1 => reqs[q].made >= 1
                /\ (reqs[q].pc = "done" /\ reqs[q].status = 500) =>
                        /\ reqs[q].made = 1
                        /\ RoleOf(reqs[q].id, "user") # {}

\* C24 (as claimed): any two GET summary requests for the same stored
\* recording and the same type that were answered 200 were answered the
\* same content.
C24_SummaryReadsAgree ==
    \A q1 \in Reqs, q2 \in Reqs :
        (/\ reqs[q1].kind = "summary" /\ reqs[q2].kind = "summary"
         /\ reqs[q1].pc = "done" /\ reqs[q2].pc = "done"
         /\ reqs[q1].status = 200 /\ reqs[q2].status = 200
         /\ reqs[q1].id = reqs[q2].id /\ reqs[q1].type = reqs[q2].type
         /\ Stored(reqs[q1].id))
        => reqs[q1].body = reqs[q2].body

\* C27 (as claimed): a GET summary request that stores a summary row
\* generated it from a transcript holding every segment the transcription
\* call of the recording returned (one row for a result without segments).
C27_SummaryFromWholeTranscript ==
    [][\A q \in Reqs :
        (/\ At(q, "summary", "generate")
         /\ reqs'[q].pc = "done" /\ reqs'[q].made = 1)
        => Len(reqs[q].val) = Expected(pipe[reqs[q].id].transcription)]_vars

\* C25 (as claimed): every stored segment of a recording whose transcription
\* call returned a segment list has the text of one of the returned
\* segments and, as its timestamp, that segment's start offset truncated to
\* whole seconds.
C25_TimestampTruncated ==
    \A k \in DOMAIN transcripts :
        LET row == transcripts[k]
            t   == pipe[row.recordingId].transcription
        IN  t.hasSegments =>
                \E i \in 1..Len(t.segments) :
                    /\ t.segments[i].text = row.text
                    /\ row.timestamp = MathFloor(t.segments[i].start)

\* the GET status request q was answered 200
Polled(q) ==
    reqs[q].kind = "status" /\ reqs[q].pc = "done" /\ reqs[q].status = 200

\* C26: every progress value a GET status request answers is 25, 75 or 100;
\* of two answered requests for the same recording, the one that arrived
\* later does not answer a smaller value; and no step lowers the progress
\* value of a recording that stays stored.
C26_ProgressNeverDecreases ==
    /\ [](\A q \in Reqs : Polled(q) => reqs[q].body.progress \in {25, 75, 100})
    /\ [](\A q1 \in Reqs, q2 \in Reqs :
            (q1 < q2 /\ Polled(q1) /\ Polled(q2) /\ reqs[q1].id = reqs[q2].id)
            => reqs[q1].body.progress <= reqs[q2].body.progress)
    /\ [][\A id \in DOMAIN recordings \cap DOMAIN recordings' :
            getStatus(recordings[id]).progress
                <= getStatus(recordings'[id]).progress]_vars

\* C26 witness: two polls of a recording answered 75 and then 100, the
\* second one after the transcribed update stored processed = false.
C26_Witness ==
    \E q1 \in Reqs, q2 \in Reqs :
        /\ q1 < q2 /\ Polled(q1) /\ Polled(q2)
        /\ reqs[q1].id = reqs[q2].id /\ Stored(reqs[q1].id)
        /\ reqs[q1].body.progress = 75 /\ reqs[q2].body.progress = 100
        /\ ~recordings[reqs[q1].id].processed

\* C28 (as claimed): a stored recording that the run marked transcribed,
\* no await of the run having thrown, has at least one stored segment.
C28_TranscribedHasSegment ==
    \A id \in DOMAIN pipe \cap DOMAIN recordings :
        (/\ pipe[id].pc \in {"transcribed", "done"}
         /\ pipe[id].threw = ""
         /\ recordings[id].transcribed)
        => SegmentsOf(id) # {}

\* C29: the stored ids are ids createRecording handed out, and no step
\* stores a recording under an id that was handed out earlier and is not
\* stored: once deleted, getRecording(id) stays undefined, whatever the run
\* of the recording and later creates do.
C29_NeverResurrected ==
    /\ [](DOMAIN recordings \subseteq 1..(recordingIdCounter - 1))
    /\ [][\A id \in 1..(recordingIdCounter - 1) :
            id \notin DOMAIN recordings => id \notin DOMAIN recordings']_vars

\* C29 witness: recording 1 was deleted while its run was in flight, the
\* run's processed update and its catch block ran afterwards, and recording
\* 2 is stored; recording 1 is not.
C29_Witness ==
    /\ DOMAIN recordings = {2}
    /\ DOMAIN pipe = {1, 2}
    /\ pipe[1].pc = "rejected" /\ pipe[1].threw = "processed"
    /\ getRecording(1) = Undefined

\* C30 (as claimed): for a stored recording whose run has sent the fan-out,
\* the transcript text the run passed to it is the text the GET summary
\* handler builds from the stored segments, line by line in the same
\* order, and the label m:ss of every line stands for the stored timestamp
\* of its segment.
C30_SameTranscriptText ==
    \A id \in DOMAIN pipe \cap DOMAIN recordings :
        pipe[id].dispatched =>
            LET transcript == getTranscriptByRecordingId(id)
                text       == pipe[id].transcriptText
            IN  /\ text = TranscriptText(transcript)
                /\ \A i \in 1..Len(text) :
                        LabelSeconds(text[i]) = transcript[i].timestamp
====
